---- MODULE Spec2Model ----
(***************************************************************************)
(* strategy_crypto: AES-256-GCM sealing of byte payloads under a key       *)
(* string normalised by parse_key.  Byte strings are sequences of 0..255.  *)
(***************************************************************************)
EXTENDS Integers, Sequences, FiniteSets, TLC

(* ------------------------------------------------------------------ *)
(* Byte arithmetic                                                      *)
(* ------------------------------------------------------------------ *)
RECURSIVE XorBits(_, _, _)
XorBits(a, b, n) ==
    IF n = 0 THEN 0
    ELSE ((a + b) % 2) + 2 * XorBits(a \div 2, b \div 2, n - 1)

XorTab == [a \in 0..255 |-> [b \in 0..255 |-> XorBits(a, b, 8)]]

Xor(a, b) == XorTab[a][b]

\* A function over 1..n evaluated to a tuple.
Tup(f) == f \o << >>

XorSeq(a, b) == Tup([i \in 1..Len(a) |-> Xor(a[i], b[i])])

Zeros(n) == Tup([i \in 1..n |-> 0])

(* ------------------------------------------------------------------ *)
(* AES-256 block cipher (FIPS 197)                                      *)
(* ------------------------------------------------------------------ *)
SBox ==
  <<
     99, 124, 119, 123, 242, 107, 111, 197, 48, 1, 103, 43, 254, 215, 171, 118,
     202, 130, 201, 125, 250, 89, 71, 240, 173, 212, 162, 175, 156, 164, 114, 192,
     183, 253, 147, 38, 54, 63, 247, 204, 52, 165, 229, 241, 113, 216, 49, 21,
     4, 199, 35, 195, 24, 150, 5, 154, 7, 18, 128, 226, 235, 39, 178, 117,
     9, 131, 44, 26, 27, 110, 90, 160, 82, 59, 214, 179, 41, 227, 47, 132,
     83, 209, 0, 237, 32, 252, 177, 91, 106, 203, 190, 57, 74, 76, 88, 207,
     208, 239, 170, 251, 67, 77, 51, 133, 69, 249, 2, 127, 80, 60, 159, 168,
     81, 163, 64, 143, 146, 157, 56, 245, 188, 182, 218, 33, 16, 255, 243, 210,
     205, 12, 19, 236, 95, 151, 68, 23, 196, 167, 126, 61, 100, 93, 25, 115,
     96, 129, 79, 220, 34, 42, 144, 136, 70, 238, 184, 20, 222, 94, 11, 219,
     224, 50, 58, 10, 73, 6, 36, 92, 194, 211, 172, 98, 145, 149, 228, 121,
     231, 200, 55, 109, 141, 213, 78, 169, 108, 86, 244, 234, 101, 122, 174, 8,
     186, 120, 37, 46, 28, 166, 180, 198, 232, 221, 116, 31, 75, 189, 139, 138,
     112, 62, 181, 102, 72, 3, 246, 14, 97, 53, 87, 185, 134, 193, 29, 158,
     225, 248, 152, 17, 105, 217, 142, 148, 155, 30, 135, 233, 206, 85, 40, 223,
     140, 161, 137, 13, 191, 230, 66, 104, 65, 153, 45, 15, 176, 84, 187, 22 >>

Sub(x) == SBox[x + 1]

xtime(a) == IF a >= 128 THEN Xor((2 * a) % 256, 27) ELSE 2 * a

Rcon == << 1, 2, 4, 8, 16, 32, 64 >>

\* Next word of the key schedule, given the i-th word index and the bytes so far.
KeyWord(w, i) ==
    LET n == Len(w)
        t == << w[n - 3], w[n - 2], w[n - 1], w[n] >>
        u == IF i % 8 = 0
               THEN << Xor(Sub(t[2]), Rcon[i \div 8]), Sub(t[3]), Sub(t[4]), Sub(t[1]) >>
               ELSE IF i % 8 = 4
                 THEN << Sub(t[1]), Sub(t[2]), Sub(t[3]), Sub(t[4]) >>
                 ELSE t
    IN  Tup([j \in 1..4 |-> Xor(w[n - 32 + j], u[j])])

RECURSIVE ExpandFrom(_, _)
ExpandFrom(w, i) == IF Len(w) = 240 THEN w ELSE ExpandFrom(w \o KeyWord(w, i), i + 1)

KeyExpansion(key) == ExpandFrom(key, 8)

AddRoundKey(s, rk, r) == Tup([i \in 1..16 |-> Xor(s[i], rk[16 * r + i])])

SubBytes(s) == Tup([i \in 1..16 |-> Sub(s[i])])

ShiftRows(s) ==
    Tup([i \in 1..16 |->
        LET r == (i - 1) % 4
            c == (i - 1) \div 4
        IN  s[r + 4 * ((c + r) % 4) + 1]])

MixColumns(s) ==
    Tup([i \in 1..16 |->
        LET r == (i - 1) % 4
            b == 4 * ((i - 1) \div 4)
            a0 == s[b + r + 1]
            a1 == s[b + ((r + 1) % 4) + 1]
            a2 == s[b + ((r + 2) % 4) + 1]
            a3 == s[b + ((r + 3) % 4) + 1]
        IN  Xor(Xor(xtime(a0), Xor(xtime(a1), a1)), Xor(a2, a3))])

\* t holds the state after the initial AddRoundKey and after each round so far.
RECURSIVE RoundsFrom(_, _)
RoundsFrom(t, rk) ==
    IF Len(t) = 14
      THEN AddRoundKey(ShiftRows(SubBytes(t[14])), rk, 14)
      ELSE RoundsFrom(
             Append(t, AddRoundKey(MixColumns(ShiftRows(SubBytes(t[Len(t)]))), rk, Len(t))),
             rk)

EncryptBlock(rk, blk) == RoundsFrom(<< AddRoundKey(blk, rk, 0) >>, rk)

(* ------------------------------------------------------------------ *)
(* GCM (NIST SP 800-38D) with a 96-bit nonce and no associated data     *)
(* ------------------------------------------------------------------ *)
\* Multiplication by x in GF(2^128), GCM bit order.
ShiftRight(v) ==
    LET s == Tup([i \in 1..16 |->
                (v[i] \div 2) + (IF i > 1 THEN 128 * (v[i - 1] % 2) ELSE 0)])
    IN  IF v[16] % 2 = 1 THEN [s EXCEPT ![1] = Xor(s[1], 225)] ELSE s

\* v, v*x, ..., v*x^(n-1).
RECURSIVE Shifts(_, _)
Shifts(v, n) == IF n = 0 THEN << >> ELSE << v >> \o Shifts(ShiftRight(v), n - 1)

\* Powers(y)[j][k] = y * x^(8*(j-1) + (k-1)), the V_i of SP 800-38D Algorithm 1
\* grouped by the byte of the multiplier that selects them.
RECURSIVE PowersFrom(_)
PowersFrom(t) ==
    IF Len(t) = 16 THEN t
    ELSE PowersFrom(Append(t, Shifts(ShiftRight(t[Len(t)][8]), 8)))

Powers(y) == PowersFrom(<< Shifts(y, 8) >>)

\* Sum of the g[k] selected by the bits of byte b, most significant bit first.
RECURSIVE ByteMul(_, _, _)
ByteMul(b, g, k) ==
    IF k > 8 THEN Zeros(16)
    ELSE LET rest == ByteMul(b, g, k + 1)
         IN  IF (b \div (2 ^ (8 - k))) % 2 = 1 THEN XorSeq(g[k], rest) ELSE rest

RECURSIVE SumFrom(_, _, _)
SumFrom(x, p, j) ==
    IF j > 16 THEN Zeros(16) ELSE XorSeq(ByteMul(x[j], p[j], 1), SumFrom(x, p, j + 1))

\* x * y in GF(2^128), y given by its table Powers(y).
GfMul(x, p) == SumFrom(x, p, 1)

Be32(n) == << (n \div 16777216) % 256, (n \div 65536) % 256, (n \div 256) % 256, n % 256 >>

\* len(A) = 0 and len(C) in bits, each as 64-bit big endian.
LenBlock(c) == Zeros(8) \o Zeros(4) \o Be32(8 * Len(c))

PadBlock(c, i) ==
    Tup([j \in 1..16 |-> IF 16 * i + j <= Len(c) THEN c[16 * i + j] ELSE 0])

\* ys holds Y_0 .. Y_i of the GHASH recurrence over the padded blocks of c.
RECURSIVE GHashFrom(_, _, _)
GHashFrom(p, c, ys) ==
    IF 16 * (Len(ys) - 1) >= Len(c)
      THEN GfMul(XorSeq(ys[Len(ys)], LenBlock(c)), p)
      ELSE GHashFrom(p, c,
             Append(ys, GfMul(XorSeq(ys[Len(ys)], PadBlock(c, Len(ys) - 1)), p)))

GHash(h, c) == GHashFrom(Powers(h), c, << Zeros(16) >>)

CounterBlock(rk, nonce, n) == EncryptBlock(rk, nonce \o Be32(n))

\* CTR keystream applied to data (the same operation seals and opens).
RECURSIVE CtrFrom(_, _, _, _)
CtrFrom(rk, nonce, data, i) ==
    IF 16 * i >= Len(data) THEN << >>
    ELSE LET ks == CounterBlock(rk, nonce, 2 + i)
             n  == IF Len(data) - 16 * i < 16 THEN Len(data) - 16 * i ELSE 16
         IN  Tup([j \in 1..n |-> Xor(data[16 * i + j], ks[j])])
               \o CtrFrom(rk, nonce, data, i + 1)

Ctr(rk, nonce, data) == CtrFrom(rk, nonce, data, 0)

Tag(rk, nonce, ct) ==
    XorSeq(GHash(EncryptBlock(rk, Zeros(16)), ct), CounterBlock(rk, nonce, 1))

(* ------------------------------------------------------------------ *)
(* Results of the fallible operations (PyResult)                        *)
(* ------------------------------------------------------------------ *)
Ok(v) == [ok |-> TRUE, val |-> v, err |-> ""]

Err(e) == [ok |-> FALSE, val |-> << >>, err |-> e]

\* PyValueError raised by parse_key (the STRATEGY_KEY message).
KeyFormatError == Err("STRATEGY_KEY must be 32 bytes hex/base64/raw")

\* PyValueError raised by decrypt_bytes for a blob shorter than the nonce.
FramingError == Err("ciphertext format error, too short")

\* PyValueError carrying aead::Error's text, raised when open fails.
AeadError == Err("aead::Error")

\* PyValueError carrying InvalidLength's text, raised by new_from_slice.
InvalidLength == Err("Invalid Length")

(* ------------------------------------------------------------------ *)
(* hex::decode and base64 STANDARD.decode                               *)
(* ------------------------------------------------------------------ *)
\* Value of a hex digit, upper or lower case; -1 for any other byte.
HexVal(c) ==
    IF c >= 48 /\ c <= 57 THEN c - 48
    ELSE IF c >= 97 /\ c <= 102 THEN c - 87
    ELSE IF c >= 65 /\ c <= 70 THEN c - 55
    ELSE -1

\* Variant: the second digit of a pair is taken as the high nibble.
HexDecode_low_first(s) ==
    IF Len(s) % 2 # 0 THEN Err("OddLength")
    ELSE IF \E i \in 1..Len(s) : HexVal(s[i]) < 0 THEN Err("InvalidHexCharacter")
    ELSE Ok(Tup([i \in 1..(Len(s) \div 2) |->
                   HexVal(s[2 * i - 1]) + 16 * HexVal(s[2 * i])]))

HexDecode(s) ==
    IF Len(s) % 2 # 0 THEN Err("OddLength")
    ELSE IF \E i \in 1..Len(s) : HexVal(s[i]) < 0 THEN Err("InvalidHexCharacter")
    ELSE Ok(Tup([i \in 1..(Len(s) \div 2) |->
                   16 * HexVal(s[2 * i - 1]) + HexVal(s[2 * i])]))

\* Value of a symbol of the standard alphabet; -1 for any other byte.
B64Val(c) ==
    IF c >= 65 /\ c <= 90 THEN c - 65
    ELSE IF c >= 97 /\ c <= 122 THEN c - 71
    ELSE IF c >= 48 /\ c <= 57 THEN c + 4
    ELSE IF c = 43 THEN 62
    ELSE IF c = 47 THEN 63
    ELSE -1

\* DecodeError of the base64 crate; offsets count from 0 as in the crate.
InvalidByte(index, b) ==
    Err("InvalidByte(" \o ToString(index) \o ", " \o ToString(b) \o ")")

DecodeInvalidLength(n) == Err("InvalidLength(" \o ToString(n) \o ")")

InvalidLastSymbol(index, b) ==
    Err("InvalidLastSymbol(" \o ToString(index) \o ", " \o ToString(b) \o ")")

InvalidPadding == Err("InvalidPadding")

\* The input before the last quad: a last quad, even a complete one, may
\* carry padding and is left to the suffix step.
CompleteQuadsLen(input) ==
    LET n   == Len(input)
        rem == n % 4
    IN  IF rem # 0 THEN n - rem
        ELSE IF n >= 4 THEN n - 4
        ELSE 0

\* The scan of the last quad from offset k on: the values of its symbols and
\* the number of padding bytes, or the first error met.
RECURSIVE SuffixFrom(_, _, _, _, _, _)
SuffixFrom(input, input_index, k, morsels, pads, first_pad) ==
    IF input_index + k >= Len(input)
      THEN [ok |-> TRUE, morsels |-> morsels, pads |-> pads]
      ELSE LET b == input[input_index + k + 1]
           IN  IF b = 61
                 THEN IF k < 2 THEN InvalidByte(input_index + k, b)
                      ELSE SuffixFrom(input, input_index, k + 1, morsels, pads + 1,
                                      IF pads = 0 THEN k ELSE first_pad)
               ELSE IF pads > 0 THEN InvalidByte(input_index + first_pad, 61)
               ELSE IF B64Val(b) < 0 THEN InvalidByte(input_index + k, b)
               ELSE SuffixFrom(input, input_index, k + 1,
                               Append(morsels, B64Val(b)), pads, first_pad)

\* STANDARD.decode: a trailing invalid byte is reported first, then the first
\* invalid byte in reading order, then the length, the padding (canonical
\* padding is required) and the trailing bits of the last symbol.
Base64Decode(s) ==
    LET n      == Len(s)
        quads  == CompleteQuadsLen(s)
        bad    == { i \in 1..quads : B64Val(s[i]) < 0 }
        first  == CHOOSE i \in bad : \A j \in bad : i <= j
        suffix == SuffixFrom(s, quads, 0, << >>, 0, 0)
        m      == suffix.morsels
        k      == Len(m)
        v(i)   == IF i <= quads THEN B64Val(s[i])
                  ELSE IF i - quads <= k THEN m[i - quads]
                  ELSE 0
    IN  IF n % 4 = 1 /\ s[n] # 61 /\ B64Val(s[n]) < 0 THEN InvalidByte(n - 1, s[n])
        ELSE IF bad # {} THEN InvalidByte(first - 1, s[first])
        ELSE IF ~suffix.ok THEN suffix
        ELSE IF n > 0 /\ k < 2 THEN DecodeInvalidLength(quads + k)
        ELSE IF (suffix.pads + k) % 4 # 0 THEN InvalidPadding
        ELSE IF k = 2 /\ m[2] % 16 # 0 THEN InvalidLastSymbol(quads + 1, s[quads + 2])
        ELSE IF k = 3 /\ m[3] % 4 # 0 THEN InvalidLastSymbol(quads + 2, s[quads + 3])
        ELSE Ok(Tup([j \in 1..(3 * (quads \div 4) + (6 * k) \div 8) |->
                  LET g == 4 * ((j - 1) \div 3)
                      r == (j - 1) % 3
                  IN  IF r = 0 THEN 4 * v(g + 1) + (v(g + 2) \div 16)
                      ELSE IF r = 1 THEN 16 * (v(g + 2) % 16) + (v(g + 3) \div 4)
                      ELSE 64 * (v(g + 3) % 4) + v(g + 4)]))

(* ------------------------------------------------------------------ *)
(* parse_key                                                            *)
(* ------------------------------------------------------------------ *)
\* "agfdsfsdafsdafdsafsdafdsafdfghdy"
DEFAULT_KEY ==
    << 97, 103, 102, 100, 115, 102, 115, 100, 97, 102, 115, 100, 97, 102, 100, 115, 97, 102, 115, 100, 97, 102, 100, 115, 97, 102, 100, 102, 103, 104, 100, 121 >>

\* Variant: an unusable key string is replaced by the default key.
parse_key_default_fallback(key_str) ==
    LET key_input == IF key_str = << >> THEN DEFAULT_KEY ELSE key_str
        hex       == HexDecode(key_input)
        b64       == Base64Decode(key_input)
    IN  IF Len(key_input) = 32 THEN Ok(key_input)
        ELSE IF hex.ok /\ Len(hex.val) = 32 THEN Ok(hex.val)
        ELSE IF b64.ok /\ Len(b64.val) = 32 THEN Ok(b64.val)
        ELSE Ok(DEFAULT_KEY)

\* Variant: the empty string is not replaced by the default key.
parse_key_no_default(key_str) ==
    LET hex == HexDecode(key_str)
        b64 == Base64Decode(key_str)
    IN  IF Len(key_str) = 32 THEN Ok(key_str)
        ELSE IF hex.ok /\ Len(hex.val) = 32 THEN Ok(hex.val)
        ELSE IF b64.ok /\ Len(b64.val) = 32 THEN Ok(b64.val)
        ELSE KeyFormatError

parse_key(key_str) ==
    LET key_input == IF key_str = << >> THEN DEFAULT_KEY ELSE key_str
        hex       == HexDecode(key_input)
        b64       == Base64Decode(key_input)
    IN  IF Len(key_input) = 32 THEN Ok(key_input)
        ELSE IF hex.ok /\ Len(hex.val) = 32 THEN Ok(hex.val)
        ELSE IF b64.ok /\ Len(b64.val) = 32 THEN Ok(b64.val)
        ELSE KeyFormatError

(* ------------------------------------------------------------------ *)
(* encrypt_bytes and decrypt_bytes                                      *)
(* ------------------------------------------------------------------ *)
\* Aes256Gcm::encrypt: ciphertext || tag.
Seal(key_bytes, nonce, plaintext) ==
    LET rk == KeyExpansion(key_bytes)
        ct == Ctr(rk, nonce, plaintext)
    IN  ct \o Tag(rk, nonce, ct)

\* Variant: only the first 15 bytes of the tag are compared.
Open_short_compare(key_bytes, nonce, ct) ==
    IF Len(ct) < 16 THEN AeadError
    ELSE LET rk   == KeyExpansion(key_bytes)
             body == SubSeq(ct, 1, Len(ct) - 16)
             tag  == SubSeq(ct, Len(ct) - 15, Len(ct))
         IN  IF SubSeq(Tag(rk, nonce, body), 1, 15) = SubSeq(tag, 1, 15)
               THEN Ok(Ctr(rk, nonce, body))
               ELSE AeadError

\* Aes256Gcm::decrypt: the tag is verified before anything is released.
Open(key_bytes, nonce, ct) ==
    IF Len(ct) < 16 THEN AeadError
    ELSE LET rk   == KeyExpansion(key_bytes)
             body == SubSeq(ct, 1, Len(ct) - 16)
             tag  == SubSeq(ct, Len(ct) - 15, Len(ct))
         IN  IF Tag(rk, nonce, body) = tag THEN Ok(Ctr(rk, nonce, body)) ELSE AeadError

\* Variant: a format version byte precedes the nonce.
encrypt_bytes_versioned(key, plaintext, nonce_bytes) ==
    LET key_bytes == parse_key(key)
    IN  IF ~key_bytes.ok THEN key_bytes
        ELSE IF Len(key_bytes.val) # 32 THEN InvalidLength
        ELSE Ok(<< 1 >> \o nonce_bytes \o Seal(key_bytes.val, nonce_bytes, plaintext))

\* Variant: the nonce buffer is used as initialised, the random bytes unused.
encrypt_bytes_zero_nonce(key, plaintext, nonce_bytes) ==
    LET key_bytes == parse_key(key)
    IN  IF ~key_bytes.ok THEN key_bytes
        ELSE IF Len(key_bytes.val) # 32 THEN InvalidLength
        ELSE Ok(Zeros(12) \o Seal(key_bytes.val, Zeros(12), plaintext))

\* nonce_bytes is the value OsRng.fill_bytes leaves in the buffer.
encrypt_bytes(key, plaintext, nonce_bytes) ==
    LET key_bytes == parse_key(key)
    IN  IF ~key_bytes.ok THEN key_bytes
        ELSE IF Len(key_bytes.val) # 32 THEN InvalidLength
        ELSE Ok(nonce_bytes \o Seal(key_bytes.val, nonce_bytes, plaintext))

\* Variant: the whole blob, nonce included, is opened as the ciphertext.
decrypt_bytes_whole_blob(key, blob) ==
    IF Len(blob) < 12 THEN FramingError
    ELSE LET key_bytes == parse_key(key)
         IN  IF ~key_bytes.ok THEN key_bytes
             ELSE IF Len(key_bytes.val) # 32 THEN InvalidLength
             ELSE Open(key_bytes.val, SubSeq(blob, 1, 12), blob)

\* Variant: the key string given is ignored and the default key used.
decrypt_bytes_default_key(key, blob) ==
    IF Len(blob) < 12 THEN FramingError
    ELSE LET key_bytes == parse_key(<< >>)
         IN  IF ~key_bytes.ok THEN key_bytes
             ELSE IF Len(key_bytes.val) # 32 THEN InvalidLength
             ELSE Open(key_bytes.val, SubSeq(blob, 1, 12), SubSeq(blob, 13, Len(blob)))

\* Variant: the key is normalised before the length of the blob is looked at.
decrypt_bytes_key_first(key, blob) ==
    LET key_bytes == parse_key(key)
    IN  IF ~key_bytes.ok THEN key_bytes
        ELSE IF Len(blob) < 12 THEN FramingError
        ELSE IF Len(key_bytes.val) # 32 THEN InvalidLength
        ELSE Open(key_bytes.val, SubSeq(blob, 1, 12), SubSeq(blob, 13, Len(blob)))

\* Variant: the length check also covers the tag.
decrypt_bytes_min28(key, blob) ==
    IF Len(blob) < 28 THEN FramingError
    ELSE LET key_bytes == parse_key(key)
         IN  IF ~key_bytes.ok THEN key_bytes
             ELSE IF Len(key_bytes.val) # 32 THEN InvalidLength
             ELSE Open(key_bytes.val, SubSeq(blob, 1, 12), SubSeq(blob, 13, Len(blob)))

decrypt_bytes(key, blob) ==
    IF Len(blob) < 12 THEN FramingError
    ELSE LET key_bytes == parse_key(key)
         IN  IF ~key_bytes.ok THEN key_bytes
             ELSE IF Len(key_bytes.val) # 32 THEN InvalidLength
             ELSE Open(key_bytes.val, SubSeq(blob, 1, 12), SubSeq(blob, 13, Len(blob)))

(* ------------------------------------------------------------------ *)
(* Inputs                                                               *)
(* ------------------------------------------------------------------ *)
MaxPlainLen == 1

MaxCalls == 2

HexDigit(v) == IF v < 10 THEN 48 + v ELSE 87 + v

\* Lower-case hex text of a byte string.
HexEncode(b) ==
    Tup([i \in 1..(2 * Len(b)) |->
           IF i % 2 = 1 THEN HexDigit(b[(i + 1) \div 2] \div 16)
           ELSE HexDigit(b[i \div 2] % 16)])

B64Symbol(v) ==
    IF v < 26 THEN 65 + v
    ELSE IF v < 52 THEN 71 + v
    ELSE IF v < 62 THEN v - 4
    ELSE IF v = 62 THEN 43
    ELSE 47

\* Standard padded base64 text of a byte string.
Base64Encode(b) ==
    LET n    == Len(b)
        at(i) == IF i <= n THEN b[i] ELSE 0
    IN  Tup([i \in 1..(4 * ((n + 2) \div 3)) |->
           LET g == 3 * ((i - 1) \div 4)
               r == (i - 1) % 4
           IN  IF r = 0 THEN B64Symbol(at(g + 1) \div 4)
               ELSE IF r = 1 THEN B64Symbol(16 * (at(g + 1) % 4) + (at(g + 2) \div 16))
               ELSE IF r = 2
                 THEN (IF g + 2 > n THEN 61
                       ELSE B64Symbol(4 * (at(g + 2) % 16) + (at(g + 3) \div 64)))
               ELSE (IF g + 3 > n THEN 61 ELSE B64Symbol(at(g + 3) % 64))])

\* "0123456789abcdef0123456789abcdef": 32 characters that are also hex digits.
OTHER_KEY ==
    << 48, 49, 50, 51, 52, 53, 54, 55, 56, 57, 97, 98, 99, 100, 101, 102, 48, 49, 50, 51, 52, 53, 54, 55, 56, 57, 97, 98, 99, 100, 101, 102 >>

HexDefault == HexEncode(DEFAULT_KEY)

B64Default == Base64Encode(DEFAULT_KEY)

HexOther == HexEncode(OTHER_KEY)

B64Other == Base64Encode(OTHER_KEY)

\* Key strings that normalise to a key.
ValidKeys ==
    { << >>, DEFAULT_KEY, HexDefault, B64Default, OTHER_KEY, HexOther, B64Other }

\* Key strings that no encoding accepts as 32 bytes.
InvalidKeys ==
    { SubSeq(DEFAULT_KEY, 1, 5),                      \* 5 raw characters
      SubSeq(DEFAULT_KEY, 1, 31),                     \* 31 raw characters
      DEFAULT_KEY \o << 121 >>,                       \* 33 raw characters
      SubSeq(DEFAULT_KEY, 1, 30) \o << 195, 169 >> \o << 121 >>,
                                                      \* 32 characters, 33 bytes
      SubSeq(HexDefault, 1, 62),                      \* hex of 31 bytes
      SubSeq(HexDefault, 1, 63),                      \* odd number of hex digits
      HexDefault \o << 48, 48, 48, 48 >>,             \* hex of 34 bytes, base64 of 51
      << 103 >> \o SubSeq(HexDefault, 2, 64),         \* 'g' is no hex digit
      SubSeq(B64Default, 1, 43),                      \* padding removed
      [B64Default EXCEPT ![43] = B64Symbol(B64Val(@) + 1)],
                                                      \* non-zero trailing bits
      Base64Encode(SubSeq(DEFAULT_KEY, 1, 31)),       \* base64 of 31 bytes
      Base64Encode(DEFAULT_KEY \o << 0 >>),           \* base64 of 33 bytes
      B64Default \o << 10 >>,                         \* base64 and a newline
      << 61 >> }                                      \* padding alone

KeyStrings == ValidKeys \cup InvalidKeys

\* The keys of the hosts whose blobs are altered in transit.
TamperKeys == { << >>, HexDefault, OTHER_KEY }

\* "hello world"
HelloWorld == << 104, 101, 108, 108, 111, 32, 119, 111, 114, 108, 100 >>

RECURSIVE Repeat(_, _)
Repeat(b, n) == IF n = 0 THEN << >> ELSE << b >> \o Repeat(b, n - 1)

Plaintexts == { Repeat(104, n) : n \in 0..MaxPlainLen } \cup { HelloWorld }

\* The longest plaintext among the inputs.
MaxBlobPlain == IF MaxPlainLen > Len(HelloWorld) THEN MaxPlainLen ELSE Len(HelloWorld)

\* OsRng.fill_bytes: any 12 bytes can come out.
Nonces == [1..12 -> 0..255]

\* Outcomes of OsRng.fill_bytes: all zero, then values drawn in runs of the
\* library; the third is the second with its last byte changed, the one
\* value here that no run drew.
DrawList ==
    << Zeros(12),
       << 135, 150, 9, 173, 194, 62, 174, 171, 111, 194, 181, 11 >>,
       << 135, 150, 9, 173, 194, 62, 174, 171, 111, 194, 181, 12 >>,
       << 144, 221, 9, 189, 252, 134, 143, 48, 2, 155, 212, 245 >>,
       << 235, 221, 72, 129, 157, 233, 134, 162, 100, 214, 34, 179 >>,
       << 203, 236, 228, 252, 183, 221, 77, 221, 197, 61, 79, 188 >>,
       << 90, 67, 102, 97, 121, 183, 62, 21, 206, 16, 253, 32 >>,
       << 78, 243, 17, 126, 74, 10, 199, 45, 196, 169, 85, 225 >>,
       << 154, 254, 133, 175, 53, 76, 104, 67, 77, 59, 91, 112 >>,
       << 51, 112, 232, 48, 241, 51, 232, 29, 195, 132, 36, 190 >>,
       << 166, 56, 44, 141, 114, 234, 243, 39, 253, 68, 23, 185 >> >>

\* The number of outcomes of OsRng.fill_bytes followed, out of 2^96: the
\* properties are checked for the blobs of these nonces only.
MaxDraws == 5

NonceDraws ==
    { DrawList[i] : i \in 1..(IF MaxDraws < Len(DrawList) THEN MaxDraws ELSE Len(DrawList)) }

(* ------------------------------------------------------------------ *)
(* The host: a key string and a payload, encrypt_bytes calls on them,   *)
(* then one decrypt_bytes call on a blob it holds                       *)
(* ------------------------------------------------------------------ *)
VARIABLES
    key,        \* the key string the host is configured with
    plaintext,  \* the payload it protects
    calls,      \* per encrypt_bytes call: the nonce drawn, key_bytes, the result
    last        \* the decrypt_bytes call made, if any

vars == << key, plaintext, calls, last >>

NoDecrypt == [kind |-> "none", call |-> 0, key |-> << >>, blob |-> << >>, res |-> Err("")]

Init ==
    /\ key \in KeyStrings
    /\ plaintext \in Plaintexts
    /\ calls = << >>
    /\ last = NoDecrypt

\* encrypt_bytes(key, plaintext), the random source returning n.
Encrypt(n) ==
    /\ n \in Nonces
    /\ last = NoDecrypt
    /\ Len(calls) < MaxCalls
    /\ calls' = Append(calls, [nonce     |-> n,
                               key_bytes |-> parse_key(key),
                               out       |-> encrypt_bytes(key, plaintext, n)])
    /\ UNCHANGED << key, plaintext, last >>

\* The first call only.
EncryptOnce(n) == calls = << >> /\ Encrypt(n)

\* decrypt_bytes(dk, blob), recorded with where the blob came from.
Present(kind, i, dk, blob) ==
    /\ last' = [kind |-> kind, call |-> i, key |-> dk, blob |-> blob,
                res  |-> decrypt_bytes(dk, blob)]
    /\ UNCHANGED << key, plaintext, calls >>

\* The blob of call i as returned, under any key string.
Decrypt(i, dk) ==
    /\ last = NoDecrypt
    /\ calls[i].out.ok
    /\ Present("intact", i, dk, calls[i].out.val)

\* Bit b of byte pos (counted from 1) inverted.
FlipBit(blob, pos, b) == [blob EXCEPT ![pos] = Xor(@, 2 ^ b)]

\* The blob of call i with one bit after the nonce inverted, under the host's key.
DecryptFlipped(i, pos, b) ==
    /\ last = NoDecrypt
    /\ calls[i].out.ok
    /\ pos <= Len(calls[i].out.val)
    /\ Present("flipped", i, key, FlipBit(calls[i].out.val, pos, b))

\* The first n bytes of the blob of call i, under any key string.
DecryptTruncated(i, n, dk) ==
    /\ last = NoDecrypt
    /\ calls[i].out.ok
    /\ n < Len(calls[i].out.val)
    /\ Present("truncated", i, dk, SubSeq(calls[i].out.val, 1, n))

Next ==
    \/ \E n \in NonceDraws : Encrypt(n)
    \/ \E i \in 1..Len(calls), dk \in KeyStrings : Decrypt(i, dk)

Spec == Init /\ [][Next]_vars

InitTamper ==
    /\ key \in TamperKeys
    /\ plaintext \in Plaintexts
    /\ calls = << >>
    /\ last = NoDecrypt

\* One call, then a blob altered in transit.
NextTamper ==
    \/ \E n \in NonceDraws : EncryptOnce(n)
    \/ \E i \in 1..Len(calls), dk \in KeyStrings : Decrypt(i, dk)
    \/ \E i \in 1..Len(calls), pos \in 13..(28 + MaxBlobPlain), b \in 0..7 :
          DecryptFlipped(i, pos, b)
    \/ \E i \in 1..Len(calls), n \in 0..(27 + MaxBlobPlain), dk \in KeyStrings :
          DecryptTruncated(i, n, dk)

SpecTamper == InitTamper /\ [][NextTamper]_vars

(* ------------------------------------------------------------------ *)
(* Properties                                                           *)
(* ------------------------------------------------------------------ *)
Decrypted == last.kind # "none"

Intact == last.kind = "intact"

SameKeyBytes(k1, k2) == parse_key(k1).ok /\ parse_key(k1) = parse_key(k2)

Prefix12(r) == SubSeq(r.out.val, 1, 12)

\* C1: round trip.  Under every key string that normalises, every call of
\* encrypt_bytes succeeds, whatever the plaintext (the empty one included) and
\* the nonce drawn, and decrypt_bytes under the same key string on the blob
\* as returned yields exactly the plaintext.
RoundTrip ==
    /\ \A i \in 1..Len(calls) : parse_key(key).ok => calls[i].out.ok
    /\ (Intact /\ last.key = key) => last.res = Ok(plaintext)

RoundTripWitness ==
    /\ Intact
    /\ last.key = key
    /\ key = HexDefault
    /\ plaintext = << >>
    /\ last.res = Ok(<< >>)

\* C2: tamper detection.  A blob returned by encrypt_bytes with one bit
\* inverted at a byte position past the 12-byte nonce is refused by
\* decrypt_bytes under the same key with the authentication error; no
\* plaintext is returned.
TamperDetected ==
    last.kind = "flipped" => (~last.res.ok /\ last.res = AeadError)

TamperDetectedWitness ==
    /\ last.kind = "flipped"
    /\ Len(last.blob) = 39
    /\ last.blob[13] # calls[1].out.val[13]
    /\ last.res = AeadError

\* C3 as stated: decrypting under any other valid key string fails with the
\* authentication error.
WrongKeyStringRejected ==
    (Intact /\ last.key # key /\ parse_key(last.key).ok) => last.res = AeadError

\* C3 as amended: a blob produced under key string k1 and decrypted under a
\* key string k2 that normalises to different key bytes fails with the
\* authentication error and yields no plaintext; under a k2 that normalises
\* to the same key bytes it decrypts.
WrongKeyBytesRejected ==
    (Intact /\ parse_key(last.key).ok) =>
        IF SameKeyBytes(key, last.key)
          THEN last.res = Ok(plaintext)
          ELSE last.res = AeadError

WrongKeyBytesWitness ==
    /\ Intact
    /\ key = DEFAULT_KEY
    /\ last.key = OTHER_KEY
    /\ last.res = AeadError

\* C4: short blob rejection.  decrypt_bytes on a blob of 0..11 bytes fails
\* with the framing error under every key string, also one that does not
\* normalise: the length is checked before the key is looked at.
ShortBlobFraming ==
    (Decrypted /\ Len(last.blob) < 12) => last.res = FramingError

ShortBlobWitness ==
    /\ last.kind = "truncated"
    /\ last.blob = << >>
    /\ ~parse_key(last.key).ok
    /\ last.res = FramingError

\* C5: key normalisation is first match in a fixed order: the empty string
\* stands for the default; a 32-byte string is its own bytes, also when it is
\* valid hex or base64; else a hex decoding of 32 bytes; else a base64 decoding
\* of 32 bytes; a decoding of another length is no match; else KeyFormatError.
\* Every key is 32 bytes and no unusable non-empty string becomes the default.
NormalizationOrder ==
    \A i \in 1..Len(calls) :
        LET kb == calls[i].key_bytes
            hx == HexDecode(key)
            b6 == Base64Decode(key)
        IN  /\ kb.ok => Len(kb.val) = 32
            /\ key = << >> => kb = Ok(DEFAULT_KEY)
            /\ Len(key) = 32 => kb = Ok(key)
            /\ (Len(key) \notin {0, 32} /\ hx.ok /\ Len(hx.val) = 32) => kb = Ok(hx.val)
            /\ (Len(key) \notin {0, 32} /\ ~(hx.ok /\ Len(hx.val) = 32)
                  /\ b6.ok /\ Len(b6.val) = 32) => kb = Ok(b6.val)
            /\ (Len(key) \notin {0, 32} /\ ~(hx.ok /\ Len(hx.val) = 32)
                  /\ ~(b6.ok /\ Len(b6.val) = 32)) => kb = KeyFormatError

NormalizationWitness ==
    /\ Len(calls) >= 1
    /\ key = HexDefault \o << 48, 48, 48, 48 >>
    /\ HexDecode(key).ok
    /\ Base64Decode(key).ok
    /\ calls[1].key_bytes = KeyFormatError

\* The three key strings of a 32-byte value usable as a raw key string.
Encodings(v) == { v, HexEncode(v), Base64Encode(v) }

\* C6: key encoding equivalence.  The hex text and the padded base64 text of
\* a 32-byte value normalise to the same key bytes as the value used as a raw
\* key string, and a blob encrypted under one of the three decrypts under
\* each of them.
KeyEncodingEquivalence ==
    \A v \in { DEFAULT_KEY, OTHER_KEY } :
        /\ key \in Encodings(v) =>
              \A i \in 1..Len(calls) : calls[i].key_bytes = Ok(v)
        /\ (Intact /\ key \in Encodings(v) /\ last.key \in Encodings(v)) =>
              last.res = Ok(plaintext)

KeyEncodingWitness ==
    /\ Intact
    /\ key = HexOther
    /\ last.key = B64Other
    /\ calls[last.call].key_bytes = Ok(OTHER_KEY)
    /\ last.res = Ok(plaintext)

\* C7: default key fallback.  The empty key string and the literal default
\* key string normalise to the same key bytes; a blob encrypted under either
\* decrypts to the plaintext under the other.
DefaultKeyFallback ==
    /\ key \in { << >>, DEFAULT_KEY } =>
          \A i \in 1..Len(calls) : calls[i].key_bytes = Ok(DEFAULT_KEY)
    /\ (Intact /\ key \in { << >>, DEFAULT_KEY } /\ last.key \in { << >>, DEFAULT_KEY }) =>
          last.res = Ok(plaintext)

DefaultKeyWitness ==
    /\ Intact
    /\ key = << >>
    /\ last.key = DEFAULT_KEY
    /\ plaintext = HelloWorld
    /\ last.res = Ok(HelloWorld)

\* C8: wire format.  A blob returned by encrypt_bytes is 12 + len(p) + 16
\* bytes long (28 for the empty plaintext, 39 for an 11-byte one); its first
\* 12 bytes are the nonce drawn in that call and the rest is what opens, under
\* the key bytes and that nonce, to p: no version byte, no length prefix.
WireFormat ==
    /\ \A i \in 1..Len(calls) :
          calls[i].out.ok =>
              /\ Len(calls[i].out.val) = 12 + Len(plaintext) + 16
              /\ Prefix12(calls[i]) = calls[i].nonce
              /\ plaintext = << >> => Len(calls[i].out.val) = 28
              /\ Len(plaintext) = 11 => Len(calls[i].out.val) = 39
    /\ (Intact /\ SameKeyBytes(key, last.key)) =>
          /\ SubSeq(last.blob, 1, 12) = calls[last.call].nonce
          /\ last.res = Ok(plaintext)

WireFormatWitness ==
    /\ Len(calls) >= 1
    /\ key = HexDefault
    /\ plaintext = HelloWorld
    /\ calls[1].out.ok
    /\ Len(calls[1].out.val) = 39

\* C9 as stated: any two calls with the same key and plaintext return blobs
\* that differ in their first 12 bytes.
NonceAlwaysDiffers ==
    \A i, j \in 1..Len(calls) :
        (i < j /\ calls[i].out.ok /\ calls[j].out.ok) =>
            Prefix12(calls[i]) # Prefix12(calls[j])

\* C9 as amended: each call puts the nonce drawn in that call, not an earlier
\* one, in the first 12 bytes of its blob, so two blobs of the same key and
\* plaintext differ there exactly when the two draws differ, and each blob
\* decrypts to the plaintext.
NonceFreshPerCall ==
    /\ \A i \in 1..Len(calls) :
          calls[i].out.ok => Prefix12(calls[i]) = calls[i].nonce
    /\ \A i, j \in 1..Len(calls) :
          (calls[i].out.ok /\ calls[j].out.ok) =>
              (Prefix12(calls[i]) # Prefix12(calls[j]) <=> calls[i].nonce # calls[j].nonce)
    /\ (Intact /\ last.key = key) => last.res = Ok(plaintext)

NonceFreshWitness ==
    /\ Len(calls) = 2
    /\ calls[1].out.ok
    /\ calls[2].out.ok
    /\ calls[1].nonce # calls[2].nonce
    /\ Prefix12(calls[1]) # Prefix12(calls[2])
    /\ Intact
    /\ last.call = 1
    /\ last.key = key
    /\ last.res = Ok(plaintext)

\* C10: a blob of 12..27 bytes passes the length check and, under a key
\* string that normalises, is refused by the open step with the same error as
\* a tag mismatch or a wrong key, not the framing error; no blob shorter than
\* 28 bytes is ever decrypted.
TruncatedIsAeadError ==
    /\ (Decrypted /\ Len(last.blob) < 28) => ~last.res.ok
    /\ (Decrypted /\ Len(last.blob) >= 12 /\ Len(last.blob) < 28
          /\ parse_key(last.key).ok) =>
              (last.res = AeadError /\ last.res # FramingError)
    /\ (Decrypted /\ Len(last.blob) >= 12 /\ parse_key(last.key).ok /\ ~last.res.ok) =>
          last.res = AeadError

TruncatedWitness ==
    /\ last.kind = "truncated"
    /\ Len(last.blob) = 27
    /\ last.key = key
    /\ last.res = AeadError
====
